---- MODULE Spec2Model ----
(***************************************************************************)
(* Model of src/todo.py: the TodoApp task store (load/save/mutate) and the *)
(* menu loop of main().                                                    *)
(*                                                                         *)
(* Text is a sequence of symbols.  A symbol is one character (" ", "\n",   *)
(* "[", a quote, a letter ...) or an indivisible run of ordinary letters   *)
(* ("task", "true", "T1").  The backing file's content, descriptions and   *)
(* user input are all such sequences, so str.strip, str.split, json.dump   *)
(* and json.loads are computed symbol by symbol.                           *)
(***************************************************************************)
EXTENDS Integers, Sequences, FiniteSets, TLC

VARIABLES
    tasks,   \* TodoApp.tasks: the in-memory list (a sequence of Python values)
    file,    \* the backing file tasks.txt: missing, unreadable, or its text
    mode,    \* where main() is: "Start", "Running", "Exiting", "Crashed"
    last,    \* the last store call: its name, its result, what its save did
    failures \* how many save attempts have failed so far

vars == <<tasks, file, mode, last, failures>>

----------------------------------------------------------------------------
(* Characters *)

NL == "\n"
SP == " "
QT == "\""
BS == "\\"

\* What str.strip() removes and what json.loads skips between tokens.
Whitespace == {SP, NL}

Digits == {"1", "2"}

----------------------------------------------------------------------------
(* str.strip and str.split('\n') *)

RECURSIVE lstrip(_)
lstrip(s) ==
    IF s # <<>> /\ Head(s) \in Whitespace THEN lstrip(Tail(s)) ELSE s

RECURSIVE rstrip(_)
rstrip(s) ==
    IF s # <<>> /\ s[Len(s)] \in Whitespace
    THEN rstrip(SubSeq(s, 1, Len(s) - 1))
    ELSE s

strip(s) == rstrip(lstrip(s))

RECURSIVE split(_)
split(s) ==
    IF \E i \in 1..Len(s) : s[i] = NL
    THEN LET i == CHOOSE k \in 1..Len(s) :
                      s[k] = NL /\ \A j \in 1..(k - 1) : s[j] # NL
         IN  <<SubSeq(s, 1, i - 1)>> \o split(SubSeq(s, i + 1, Len(s)))
    ELSE <<s>>

----------------------------------------------------------------------------
(* Python values as json.loads builds them and json.dump writes them *)

Str(s)  == [t |-> "str", s |-> s]
Bool(b) == [t |-> "bool", b |-> b]
None    == [t |-> "null"]
Num(d)  == [t |-> "num", digits |-> d]
List(x) == [t |-> "list", items |-> x]
Dict(m) == [t |-> "dict", members |-> m]    \* <<key, value>> pairs, insertion order

IsDict(v) == v.t = "dict"

HasKey(d, k) == \E i \in 1..Len(d.members) : d.members[i][1] = k

\* d[k]; the caller checks HasKey first (Python raises KeyError otherwise).
GetItem(d, k) ==
    LET i == CHOOSE j \in 1..Len(d.members) : d.members[j][1] = k
    IN  d.members[i][2]

\* d[k] = v: replaces in place, or appends a new key.
SetItem(d, k, v) ==
    IF HasKey(d, k)
    THEN Dict([i \in 1..Len(d.members) |->
                  IF d.members[i][1] = k THEN <<k, v>> ELSE d.members[i]])
    ELSE Dict(Append(d.members, <<k, v>>))

\* bool(v): Python truthiness, as `if task["completed"]` tests it.
Truthy(v) ==
    CASE v.t = "bool" -> v.b
      [] v.t = "null" -> FALSE
      [] v.t = "str"  -> v.s # <<>>
      [] v.t = "num"  -> TRUE
      [] v.t = "list" -> v.items # <<>>
      [] v.t = "dict" -> v.members # <<>>

----------------------------------------------------------------------------
(* json.dump(self.tasks, file, indent=2, ensure_ascii=False) *)

RECURSIVE Flatten(_)
Flatten(ss) == IF ss = <<>> THEN <<>> ELSE Head(ss) \o Flatten(Tail(ss))

\* A string literal: quotes and backslashes escaped, a newline written as \n.
EscapeChar(c) ==
    CASE c = QT -> <<BS, QT>>
      [] c = BS -> <<BS, BS>>
      [] c = NL -> <<BS, "n">>
      [] OTHER  -> <<c>>

EncodeString(s) ==
    <<QT>> \o Flatten([i \in 1..Len(s) |-> EscapeChar(s[i])]) \o <<QT>>

\* "\n" followed by the indentation of nesting level lvl (two spaces a level).
NewlineIndent(lvl) == <<NL>> \o [i \in 1..(2 * lvl) |-> SP]

\* parts joined by ",", each on its own indented line.
JoinItems(parts, lvl) ==
    Flatten([i \in 1..Len(parts) |->
                (IF i = 1 THEN <<>> ELSE <<",">>) \o NewlineIndent(lvl) \o parts[i]])

RECURSIVE Encode(_, _)
Encode(v, lvl) ==
    CASE v.t = "str"  -> EncodeString(v.s)
      [] v.t = "bool" -> IF v.b THEN <<"true">> ELSE <<"false">>
      [] v.t = "null" -> <<"null">>
      [] v.t = "num"  -> v.digits
      [] v.t = "list" ->
            IF v.items = <<>> THEN <<"[", "]">>
            ELSE <<"[">>
                 \o JoinItems([i \in 1..Len(v.items) |->
                                  Encode(v.items[i], lvl + 1)], lvl + 1)
                 \o NewlineIndent(lvl) \o <<"]">>
      [] v.t = "dict" ->
            IF v.members = <<>> THEN <<"{", "}">>
            ELSE <<"{">>
                 \o JoinItems([i \in 1..Len(v.members) |->
                                  EncodeString(v.members[i][1]) \o <<":", SP>>
                                  \o Encode(v.members[i][2], lvl + 1)], lvl + 1)
                 \o NewlineIndent(lvl) \o <<"}">>

json_dump(list) == Encode(List(list), 0)

----------------------------------------------------------------------------
(* json.loads(content) *)

Fail        == [ok |-> FALSE]
Ok(v, rest) == [ok |-> TRUE, val |-> v, rest |-> rest]

\* The characters of a string literal after its opening quote.
RECURSIVE ParseString(_, _)
ParseString(s, acc) ==
    IF s = <<>> THEN Fail
    ELSE IF Head(s) = QT THEN Ok(acc, Tail(s))
    ELSE IF Head(s) = NL THEN Fail
    ELSE IF Head(s) = BS THEN
        IF Len(s) < 2 THEN Fail
        ELSE IF s[2] \in {QT, BS}
             THEN ParseString(SubSeq(s, 3, Len(s)), Append(acc, s[2]))
        ELSE IF s[2] = "n"
             THEN ParseString(SubSeq(s, 3, Len(s)), Append(acc, NL))
        ELSE Fail
    ELSE ParseString(Tail(s), Append(acc, Head(s)))

RECURSIVE ParseNumber(_, _)
ParseNumber(s, acc) ==
    IF s # <<>> /\ Head(s) \in Digits
    THEN ParseNumber(Tail(s), Append(acc, Head(s)))
    ELSE Ok(Num(acc), s)

RECURSIVE ParseValue(_)
RECURSIVE ParseItems(_, _)
RECURSIVE ParseMembers(_, _)

\* After "[" or ",": a value, then "," and more, or "]".
ParseItems(s, acc) ==
    LET r == ParseValue(s) IN
    IF ~r.ok THEN Fail
    ELSE LET t == lstrip(r.rest) IN
         IF t = <<>> THEN Fail
         ELSE IF Head(t) = "," THEN ParseItems(Tail(t), Append(acc, r.val))
         ELSE IF Head(t) = "]" THEN Ok(List(Append(acc, r.val)), Tail(t))
         ELSE Fail

\* After "{" or ",": "key": value, then "," and more, or "}".
ParseMembers(s, acc) ==
    LET t == lstrip(s) IN
    IF t = <<>> \/ Head(t) # QT THEN Fail
    ELSE LET k == ParseString(Tail(t), <<>>) IN
         IF ~k.ok THEN Fail
         ELSE LET u == lstrip(k.rest) IN
              IF u = <<>> \/ Head(u) # ":" THEN Fail
              ELSE LET r == ParseValue(Tail(u)) IN
                   IF ~r.ok THEN Fail
                   ELSE LET w  == lstrip(r.rest)
                            d2 == SetItem(acc, k.val, r.val)
                        IN  IF w = <<>> THEN Fail
                            ELSE IF Head(w) = "," THEN ParseMembers(Tail(w), d2)
                            ELSE IF Head(w) = "}" THEN Ok(d2, Tail(w))
                            ELSE Fail

ParseValue(s) ==
    LET t == lstrip(s) IN
    IF t = <<>> THEN Fail
    ELSE CASE Head(t) = QT ->
                 LET r == ParseString(Tail(t), <<>>)
                 IN  IF r.ok THEN Ok(Str(r.val), r.rest) ELSE Fail
           [] Head(t) = "[" ->
                 LET u == lstrip(Tail(t))
                 IN  IF u # <<>> /\ Head(u) = "]" THEN Ok(List(<<>>), Tail(u))
                     ELSE ParseItems(Tail(t), <<>>)
           [] Head(t) = "{" ->
                 LET u == lstrip(Tail(t))
                 IN  IF u # <<>> /\ Head(u) = "}" THEN Ok(Dict(<<>>), Tail(u))
                     ELSE ParseMembers(Tail(t), Dict(<<>>))
           [] Head(t) = "true"  -> Ok(Bool(TRUE), Tail(t))
           [] Head(t) = "false" -> Ok(Bool(FALSE), Tail(t))
           [] Head(t) = "null"  -> Ok(None, Tail(t))
           [] Head(t) \in Digits -> ParseNumber(t, <<>>)
           [] OTHER -> Fail

\* The whole text must be one value; anything after it is "Extra data".
json_loads(content) ==
    LET r == ParseValue(content) IN
    IF r.ok /\ lstrip(r.rest) = <<>> THEN r ELSE Fail

----------------------------------------------------------------------------
(* Bounds of the model *)

\* No list grows beyond this many tasks.
MaxTasks == 2
\* At most this many save attempts fail in one run.
MaxSaveFailures == 1
\* A save that fails while writing leaves at most this many characters behind.
MaxCut == 1
\* The lists handed to save_tasks() directly hold at most this many records.
MaxSaved == 2

----------------------------------------------------------------------------
(* Task records *)

TASK      == <<"task">>
COMPLETED == <<"completed">>
CREATED   == <<"created">>

\* {"task": d, "completed": c, "created": t}, in the key order the code builds.
Record(d, c, t) ==
    Dict(<< <<TASK, Str(d)>>, <<COMPLETED, Bool(c)>>, <<CREATED, Str(t)>> >>)

\* v[k] evaluates: v is a dict holding k.  On anything else Python raises
\* TypeError or KeyError.
Subscriptable(v, k) == IsDict(v) /\ HasKey(v, k)

\* format(v, '<40') evaluates: None, lists and dicts reject a format spec.
Formattable(v) == v.t \in {"str", "num", "bool"}

\* task["completed"] is truthy (only asked where it evaluates).
IsCompleted(v) == Truthy(GetItem(v, COMPLETED))

----------------------------------------------------------------------------
(* The backing file *)

Missing       == [kind |-> "missing"]
Unreadable    == [kind |-> "unreadable"]   \* open() or read() raises
Text(content) == [kind |-> "text", content |-> content]

\* One record per line that is not blank, the line stripped.
LegacyLines(content) ==
    LET lines == SelectSeq(split(content), LAMBDA line : strip(line) # <<>>)
    IN  [i \in 1..Len(lines) |-> Record(strip(lines[i]), FALSE, <<>>)]

\* load_tasks testing `if data:` where it tests isinstance(data, list): an
\* empty array is no longer taken as the list.
LoadBranch_truthy_list(f) ==
    IF f.kind = "missing" THEN "new"
    ELSE IF f.kind = "unreadable" THEN "error"
    ELSE LET content == strip(f.content) IN
         IF content = <<>> THEN "empty"
         ELSE LET data == json_loads(content) IN
              IF data.ok /\ data.val.t = "list" /\ data.val.items # <<>>
              THEN "json" ELSE "legacy"

\* The branch load_tasks takes on a file.
LoadBranch(f) ==
    IF f.kind = "missing" THEN "new"
    ELSE IF f.kind = "unreadable" THEN "error"
    ELSE LET content == strip(f.content) IN
         IF content = <<>> THEN "empty"
         ELSE LET data == json_loads(content) IN
              IF data.ok /\ data.val.t = "list" THEN "json" ELSE "legacy"

\* self.tasks after load_tasks().
load_tasks(f) ==
    LET branch == LoadBranch(f) IN
    IF branch = "json" THEN json_loads(strip(f.content)).val.items
    ELSE IF branch = "legacy" THEN LegacyLines(strip(f.content))
    ELSE <<>>

\* How one save_tasks() call that is to write dump ends: "ok",
\* "open_failed" (open() raises, the
\* file is untouched) or "write_failed" (open() has truncated the file and
\* only the first cut characters of the dump reach it).
SaveOutcomes(dump, n) ==
    {[k |-> "ok", cut |-> 0]}
    \cup (IF n < MaxSaveFailures
          THEN {[k |-> "open_failed", cut |-> 0]}
               \cup {[k |-> "write_failed", cut |-> c] :
                        c \in 0..(IF MaxCut < Len(dump)
                                  THEN MaxCut ELSE Len(dump) - 1)}
          ELSE {})

\* The file after save_tasks() with outcome o.
save_file(dump, f, o) ==
    CASE o.k = "ok"           -> Text(dump)
      [] o.k = "open_failed"  -> f
      [] o.k = "write_failed" -> Text(SubSeq(dump, 1, o.cut))

----------------------------------------------------------------------------
(* TodoApp's operations.  Each yields the set of ways the call can end: the *)
(* list and the file afterwards, what it returns ("True", "False", "None", *)
(* or "raised" when an exception leaves the method), how it got there      *)
(* ("empty": "Task description cannot be empty!"; "invalid_number":        *)
(* "Invalid task number!"; "save_failed"; "caught": its own except clause; *)
(* "nothing", "cancelled", "ok"), and what its save_tasks() call did        *)
(* ("none" when it made none).                                             *)

Done(list, f, result, how, saved) ==
    [tasks |-> list, file |-> f, result |-> result, how |-> how, saved |-> saved]

InRange(list, task_index) == 1 <= task_index /\ task_index <= Len(list)

\* save_tasks() catching only OSError: a failure while writing gets out as an
\* exception.
save_tasks_lets_errors_out(list, f, n) ==
    LET dump == json_dump(list) IN
    {Done(list, save_file(dump, f, o),
          IF o.k = "ok" THEN "True"
          ELSE IF o.k = "write_failed" THEN "raised" ELSE "False",
          IF o.k = "ok" THEN "ok" ELSE "save_failed",
          o.k) : o \in SaveOutcomes(dump, n)}

\* save_tasks() without its `return False`: a failed save reports success.
save_tasks_reports_success(list, f, n) ==
    LET dump == json_dump(list) IN
    {Done(list, save_file(dump, f, o), "True", "ok", o.k) :
        o \in SaveOutcomes(dump, n)}

\* save_tasks() on self.tasks = list: every way it can end.  It returns True
\* after a complete write and False from its except clause; self.tasks is
\* not assigned.
save_tasks(list, f, n) ==
    LET dump == json_dump(list) IN
    {Done(list, save_file(dump, f, o),
          IF o.k = "ok" THEN "True" ELSE "False",
          IF o.k = "ok" THEN "ok" ELSE "save_failed",
          o.k) : o \in SaveOutcomes(dump, n)}

\* The tail every mutation shares: `if self.save_tasks(): ... return True`
\* `else: ... return False`.  printable: the success message evaluates; when
\* it raises, the method's own except clause returns False.
SaveAndReport(list, f, n, printable) ==
    {Done(s.tasks, s.file,
          IF s.result = "True" /\ printable THEN "True" ELSE "False",
          IF s.result = "True" /\ ~printable THEN "caught" ELSE s.how,
          s.saved) : s \in save_tasks(list, f, n)}

\* add_task testing `if not task_description:`: whitespace passes.
add_task_unstripped_test(list, f, task_description, now, n) ==
    IF task_description = <<>>
    THEN {Done(list, f, "False", "empty", "none")}
    ELSE SaveAndReport(Append(list, Record(strip(task_description), FALSE, now)),
                       f, n, TRUE)

\* add_task calling self.tasks.insert(0, new_task) where it appends.
add_task_inserts_first(list, f, task_description, now, n) ==
    IF strip(task_description) = <<>>
    THEN {Done(list, f, "False", "empty", "none")}
    ELSE SaveAndReport(<<Record(strip(task_description), FALSE, now)>> \o list,
                       f, n, TRUE)

add_task(list, f, task_description, now, n) ==
    IF strip(task_description) = <<>>
    THEN {Done(list, f, "False", "empty", "none")}
    ELSE SaveAndReport(Append(list, Record(strip(task_description), FALSE, now)),
                       f, n, TRUE)

\* remove_task popping task_index where it pops task_index - 1.
remove_task_off_by_one(list, f, task_index, n) ==
    IF InRange(list, task_index)
    THEN LET at == IF task_index < Len(list) THEN task_index + 1 ELSE 1
             removed_task == list[at]
             popped == SubSeq(list, 1, at - 1) \o SubSeq(list, at + 1, Len(list))
         IN  SaveAndReport(popped, f, n, Subscriptable(removed_task, TASK))
    ELSE {Done(list, f, "False", "invalid_number", "none")}

remove_task(list, f, task_index, n) ==
    IF InRange(list, task_index)
    THEN LET removed_task == list[task_index]
             popped == SubSeq(list, 1, task_index - 1)
                       \o SubSeq(list, task_index + 1, Len(list))
         IN  SaveAndReport(popped, f, n, Subscriptable(removed_task, TASK))
    ELSE {Done(list, f, "False", "invalid_number", "none")}

\* mark_complete without its else branch: a bad number falls through to the
\* save.
mark_complete_saves_anyway(list, f, task_index, n) ==
    IF InRange(list, task_index)
    THEN IF ~IsDict(list[task_index])
         THEN {Done(list, f, "False", "caught", "none")}
         ELSE LET marked == [list EXCEPT ![task_index] =
                                SetItem(@, COMPLETED, Bool(TRUE))]
              IN  SaveAndReport(marked, f, n, HasKey(marked[task_index], TASK))
    ELSE SaveAndReport(list, f, n, TRUE)

mark_complete(list, f, task_index, n) ==
    IF InRange(list, task_index)
    THEN IF ~IsDict(list[task_index])
         THEN {Done(list, f, "False", "caught", "none")}
         ELSE LET marked == [list EXCEPT ![task_index] =
                                SetItem(@, COMPLETED, Bool(TRUE))]
              IN  SaveAndReport(marked, f, n, HasKey(marked[task_index], TASK))
    ELSE {Done(list, f, "False", "invalid_number", "none")}

\* mark_incomplete flipping the flag where it assigns False.
mark_incomplete_toggles(list, f, task_index, n) ==
    IF InRange(list, task_index)
    THEN IF ~IsDict(list[task_index])
         THEN {Done(list, f, "False", "caught", "none")}
         ELSE LET marked == [list EXCEPT ![task_index] =
                                SetItem(@, COMPLETED,
                                        Bool(~(HasKey(@, COMPLETED)
                                                 /\ IsCompleted(@))))]
              IN  SaveAndReport(marked, f, n, HasKey(marked[task_index], TASK))
    ELSE {Done(list, f, "False", "invalid_number", "none")}

mark_incomplete(list, f, task_index, n) ==
    IF InRange(list, task_index)
    THEN IF ~IsDict(list[task_index])
         THEN {Done(list, f, "False", "caught", "none")}
         ELSE LET marked == [list EXCEPT ![task_index] =
                                SetItem(@, COMPLETED, Bool(FALSE))]
              IN  SaveAndReport(marked, f, n, HasKey(marked[task_index], TASK))
    ELSE {Done(list, f, "False", "invalid_number", "none")}

\* edit_task building a fresh record where it assigns one key: the completed
\* flag and the timestamp are reset.
edit_task_rebuilds_record(list, f, task_index, new_description, n) ==
    IF InRange(list, task_index)
    THEN IF strip(new_description) = <<>>
         THEN {Done(list, f, "False", "empty", "none")}
         ELSE IF ~Subscriptable(list[task_index], TASK)
         THEN {Done(list, f, "False", "caught", "none")}
         ELSE LET edited == [list EXCEPT ![task_index] =
                                Record(strip(new_description), FALSE, <<>>)]
              IN  SaveAndReport(edited, f, n, TRUE)
    ELSE {Done(list, f, "False", "invalid_number", "none")}

edit_task(list, f, task_index, new_description, n) ==
    IF InRange(list, task_index)
    THEN IF strip(new_description) = <<>>
         THEN {Done(list, f, "False", "empty", "none")}
         ELSE IF ~Subscriptable(list[task_index], TASK)
         THEN {Done(list, f, "False", "caught", "none")}
         ELSE LET edited == [list EXCEPT ![task_index] =
                                SetItem(@, TASK, Str(strip(new_description)))]
              IN  SaveAndReport(edited, f, n, TRUE)
    ELSE {Done(list, f, "False", "invalid_number", "none")}

\* Every task["completed"] of the list evaluates.
FlagsReadable(list) == \A i \in 1..Len(list) : Subscriptable(list[i], COMPLETED)

\* The line that prints task i evaluates: f"{task['task']:<40}".
LinePrintable(list, i) ==
    Subscriptable(list[i], TASK) /\ Formattable(GetItem(list[i], TASK))

view_tasks(list, show_completed) ==
    IF list = <<>> THEN "None"
    ELSE IF ~FlagsReadable(list) THEN "raised"
    ELSE IF \E i \in 1..Len(list) :
                (show_completed \/ ~IsCompleted(list[i])) /\ ~LinePrintable(list, i)
         THEN "raised"
    ELSE "None"

view_pending_tasks(list) ==
    IF ~FlagsReadable(list) THEN "raised"
    ELSE IF \A i \in 1..Len(list) : IsCompleted(list[i]) THEN "None"
    ELSE IF \E i \in 1..Len(list) : ~IsCompleted(list[i]) /\ ~LinePrintable(list, i)
         THEN "raised"
    ELSE "None"

get_task_stats(list) ==
    IF list = <<>> THEN "None"
    ELSE IF ~FlagsReadable(list) THEN "raised"
    ELSE "None"

\* StatsReport with the rate cut off after its first decimal where
\* f"{completion_rate:.1f}" rounds it.
StatsReport_truncated(list) ==
    IF list = <<>> THEN [shown |-> FALSE]
    ELSE LET total     == Len(list)
             completed == Cardinality({i \in 1..Len(list) : IsCompleted(list[i])})
             pending   == total - completed
         IN  [shown |-> TRUE, total |-> total, completed |-> completed,
              pending |-> pending,
              completion_rate |-> (1000 * completed) \div total]

\* What get_task_stats() prints when it does not raise: for an empty list
\* only "No tasks to analyze!"; otherwise the four figures, completion_rate
\* being (completed / total) * 100 as "%.1f" shows it, held here in tenths of
\* a percent (no total up to 4 gives a rate halfway between two tenths).
StatsReport(list) ==
    IF list = <<>> THEN [shown |-> FALSE]
    ELSE LET total     == Len(list)
             completed == Cardinality({i \in 1..Len(list) : IsCompleted(list[i])})
             pending   == total - completed
         IN  [shown |-> TRUE, total |-> total, completed |-> completed,
              pending |-> pending,
              completion_rate |-> (2000 * completed + total) \div (2 * total)]

\* str.lower() on the letters a confirmation is typed with.
LowerChar(c) ==
    CASE c = "Y" -> "y"
      [] c = "E" -> "e"
      [] c = "S" -> "s"
      [] OTHER   -> c

lower(s) == [i \in 1..Len(s) |-> LowerChar(s[i])]

\* The confirmation testing `confirm in ['y', 'yes', '']`: Enter alone counts
\* as yes.
Confirmed_enter_is_yes(answer) ==
    lower(strip(answer)) \in {<<"y">>, <<"y", "e", "s">>, <<>>}

\* `confirm in ['y', 'yes']` after .strip().lower().
Confirmed(answer) == lower(strip(answer)) \in {<<"y">>, <<"y", "e", "s">>}

\* clear_completed keeping the completed tasks where it keeps the others.
clear_completed_keeps_done(list, f, answer, n) ==
    IF ~FlagsReadable(list)
    THEN {Done(list, f, "raised", "raised", "none")}
    ELSE LET completed_tasks == SelectSeq(list, IsCompleted)
         IN  IF completed_tasks = <<>>
             THEN {Done(list, f, "False", "nothing", "none")}
             ELSE IF \E i \in 1..Len(completed_tasks) :
                         ~Subscriptable(completed_tasks[i], TASK)
             THEN {Done(list, f, "raised", "raised", "none")}
             ELSE IF Confirmed(answer)
             THEN SaveAndReport(completed_tasks, f, n, TRUE)
             ELSE {Done(list, f, "False", "cancelled", "none")}

clear_completed(list, f, answer, n) ==
    IF ~FlagsReadable(list)
    THEN {Done(list, f, "raised", "raised", "none")}
    ELSE LET completed_tasks == SelectSeq(list, IsCompleted)
             remaining       == SelectSeq(list, LAMBDA task : ~IsCompleted(task))
         IN  IF completed_tasks = <<>>
             THEN {Done(list, f, "False", "nothing", "none")}
             ELSE IF \E i \in 1..Len(completed_tasks) :
                         ~Subscriptable(completed_tasks[i], TASK)
             THEN {Done(list, f, "raised", "raised", "none")}
             ELSE IF Confirmed(answer)
             THEN SaveAndReport(remaining, f, n, TRUE)
             ELSE {Done(list, f, "False", "cancelled", "none")}

----------------------------------------------------------------------------
(* Inputs *)

\* Descriptions a caller passes or a user types.
Descriptions == {<<>>, <<SP>>, <<SP, "a", SP>>}

\* Answers to a (y/N) prompt.
Answers == {<<>>, <<"n">>, <<"y">>, <<SP, "Y", "E", "S">>}

\* datetime.now().strftime(...) at the time of an add.
Clock == {<<"T1">>}

\* Task numbers a caller passes: 0 .. len + 1.
Indices(list) == 0..(Len(list) + 1)

\* A file an earlier run wrote: three tasks, the second one completed.
ThreeTasks ==
    Text(json_dump(<<Record(<<"a">>, FALSE, <<"T1">>),
                     Record(<<"b">>, TRUE, <<>>),
                     Record(<<"a">>, FALSE, <<>>)>>))

\* A file written by hand: the array [1].
NotRecords == Text(<<"[", "1", "]">>)

\* What tasks.txt may hold when the program starts.
InitialFiles ==
    { Missing,
      Unreadable,
      Text(<<>>),
      Text(<<SP, NL>>),
      \* legacy text: two tasks, a blank line between them, the second
      \* indented and with a quote in it
      Text(<<"a", NL, NL, SP, "b", QT, SP, NL>>),
      \* legacy text whose only line is a JSON scalar, and a JSON object
      Text(<<"true">>),
      Text(<<"{", "}">>),
      ThreeTasks,
      Text(<<"[", "]", NL>>),
      NotRecords,
      \* written by hand: [{"task": " ", ...}], [{"task":"a"}]
      Text(json_dump(<<Record(<<SP>>, TRUE, <<>>)>>)),
      Text(<<"[", "{", QT, "task", QT, ":", QT, "a", QT, "}", "]">>),
      \* and [{"completed":false}]: a flag, no description
      Text(<<"[", "{", QT, "completed", QT, ":", "false", "}", "]">>) }

\* The files the store is driven from.
StoreFiles == {Missing, ThreeTasks, NotRecords}

----------------------------------------------------------------------------
(* The store driven directly: any caller, any arguments *)

NoCall == [choice |-> 0, op |-> "none", result |-> "None", how |-> "none",
           saved |-> "none"]

Failed(saved) == saved \in {"open_failed", "write_failed"}

\* The state after a store call that ended as r.
Apply(choice, op, r) ==
    /\ tasks' = r.tasks
    /\ file' = r.file
    /\ failures' = failures + (IF Failed(r.saved) THEN 1 ELSE 0)
    /\ last' = [choice |-> choice, op |-> op, result |-> r.result,
                how |-> r.how, saved |-> r.saved]

\* A read-only method that ends with a call of save_tasks().
Viewed_and_saved(choice, op, result) ==
    \E r \in save_tasks(tasks, file, failures) :
        Apply(choice, op,
              Done(r.tasks, r.file, result,
                   IF result = "raised" THEN "raised" ELSE "ok", r.saved))

\* A read-only call that returned or raised result.
Viewed(choice, op, result) ==
    Apply(choice, op,
          Done(tasks, file, result, IF result = "raised" THEN "raised" ELSE "ok",
               "none"))

\* TodoApp(): self.tasks = [] and then load_tasks().
Init ==
    /\ file \in StoreFiles
    /\ tasks = load_tasks(file)
    /\ mode = "Running"
    /\ last = NoCall
    /\ failures = 0

AddTask ==
    /\ Len(tasks) < MaxTasks
    /\ \E d \in Descriptions, now \in Clock :
         \E r \in add_task(tasks, file, d, now, failures) :
            Apply(0, "add_task", r)
    /\ UNCHANGED mode

RemoveTask ==
    /\ \E i \in Indices(tasks) :
         \E r \in remove_task(tasks, file, i, failures) :
            Apply(0, "remove_task", r)
    /\ UNCHANGED mode

MarkComplete ==
    /\ \E i \in Indices(tasks) :
         \E r \in mark_complete(tasks, file, i, failures) :
            Apply(0, "mark_complete", r)
    /\ UNCHANGED mode

MarkIncomplete ==
    /\ \E i \in Indices(tasks) :
         \E r \in mark_incomplete(tasks, file, i, failures) :
            Apply(0, "mark_incomplete", r)
    /\ UNCHANGED mode

EditTask ==
    /\ \E i \in Indices(tasks), d \in Descriptions :
         \E r \in edit_task(tasks, file, i, d, failures) :
            Apply(0, "edit_task", r)
    /\ UNCHANGED mode

ClearCompleted ==
    /\ \E a \in Answers :
         \E r \in clear_completed(tasks, file, a, failures) :
            Apply(0, "clear_completed", r)
    /\ UNCHANGED mode

ViewTasks ==
    /\ Viewed(0, "view_tasks", view_tasks(tasks, TRUE))
    /\ UNCHANGED mode

ViewPendingTasks ==
    /\ Viewed(0, "view_pending_tasks", view_pending_tasks(tasks))
    /\ UNCHANGED mode

GetTaskStats ==
    /\ Viewed(0, "get_task_stats", get_task_stats(tasks))
    /\ UNCHANGED mode

Next ==
    \/ AddTask
    \/ RemoveTask
    \/ MarkComplete
    \/ MarkIncomplete
    \/ EditTask
    \/ ClearCompleted
    \/ ViewTasks
    \/ ViewPendingTasks
    \/ GetTaskStats

Spec == Init /\ [][Next]_vars

----------------------------------------------------------------------------
(* One store call on a list drawn from a bounded set: each operation as a   *)
(* function of the list it finds and of its arguments.                      *)

\* What a list may hold: records with either description and either flag,
\* and the number 1, which is no record.
CallRecords ==
    {Record(d, c, <<>>) : d \in {<<"a">>, <<"b">>}, c \in BOOLEAN}
        \cup {Num(<<"1">>)}

\* Every list of up to MaxTasks of them, and what the store files load as.
CallLists ==
    UNION {[1..len -> CallRecords] : len \in 0..MaxTasks}
        \cup {load_tasks(f) : f \in StoreFiles}

\* A TodoApp whose list is in the file, as an earlier run left it.
CallInit ==
    /\ tasks \in CallLists
    /\ file = (IF tasks = <<>> THEN Missing ELSE Text(json_dump(tasks)))
    /\ mode = "Running"
    /\ last = NoCall
    /\ failures = 0

\* The first call on it, whichever it is.
CallNext ==
    \/ last = NoCall /\ AddTask
    \/ last = NoCall /\ RemoveTask
    \/ last = NoCall /\ MarkComplete
    \/ last = NoCall /\ MarkIncomplete
    \/ last = NoCall /\ EditTask
    \/ last = NoCall /\ ClearCompleted
    \/ last = NoCall /\ ViewTasks
    \/ last = NoCall /\ ViewPendingTasks
    \/ last = NoCall /\ GetTaskStats

CallSpec == CallInit /\ [][CallNext]_vars

----------------------------------------------------------------------------
(* main(): the menu loop.  One action per menu choice, the whole handler:  *)
(* get_menu_choice() and get_task_number() re-prompt until the input is a  *)
(* valid choice or an in-range task number, so only those get through.     *)

MainInit ==
    /\ file \in InitialFiles
    /\ tasks = <<>>
    /\ mode = "Start"
    /\ last = NoCall
    /\ failures = 0

\* A handler's store call ended as r; an exception nothing catches ends main().
MenuCall(choice, op, r) ==
    /\ Apply(choice, op, r)
    /\ mode' = IF r.result = "raised" THEN "Crashed" ELSE "Running"

\* A handler's read-only call (view_tasks, get_task_stats, ...).
MenuView(choice, op, result) ==
    MenuCall(choice, op,
             Done(tasks, file, result,
                  IF result = "raised" THEN "raised" ELSE "ok", "none"))

\* A handler that ends without calling a mutating store method.
MenuSkip(choice, how) ==
    /\ last' = [choice |-> choice, op |-> "none", result |-> "None",
                how |-> how, saved |-> "none"]
    /\ UNCHANGED <<tasks, file, failures, mode>>

\* `todo_app = TodoApp()` and the "Loaded n task(s)" line, which reads every
\* task["completed"].
Startup ==
    /\ mode = "Start"
    /\ tasks' = load_tasks(file)
    /\ mode' = IF tasks' # <<>> /\ ~FlagsReadable(tasks')
               THEN "Crashed" ELSE "Running"
    /\ last' = [choice |-> 0, op |-> "load_tasks", result |-> "None",
                how |-> LoadBranch(file), saved |-> "none"]
    /\ UNCHANGED <<file, failures>>

Choice1Add ==
    /\ mode = "Running"
    /\ Len(tasks) < MaxTasks
    /\ \E typed \in Descriptions, now \in Clock :
         LET task == strip(typed) IN
         IF task # <<>>
         THEN \E r \in add_task(tasks, file, task, now, failures) :
                 MenuCall(1, "add_task", r)
         ELSE MenuSkip(1, "rejected")

Choice2ViewAll ==
    /\ mode = "Running"
    /\ MenuView(2, "view_tasks", view_tasks(tasks, TRUE))

Choice3ViewPending ==
    /\ mode = "Running"
    /\ MenuView(3, "view_pending_tasks", view_pending_tasks(tasks))

\* Choices 4 to 7 start alike: view_tasks(), then get_task_number().  The
\* handler stops there when view_tasks() raises, and when the list is empty
\* (get_task_number() gives None).
StopsAtView(list) == view_tasks(list, TRUE) = "raised" \/ list = <<>>

\* get_task_number(): re-prompts until the number is in 1..len.
TaskNumbers(list) == 1..Len(list)

Choice4MarkComplete ==
    /\ mode = "Running"
    /\ IF StopsAtView(tasks)
       THEN MenuView(4, "view_tasks", view_tasks(tasks, TRUE))
       ELSE \E task_num \in TaskNumbers(tasks) :
               \E r \in mark_complete(tasks, file, task_num, failures) :
                  MenuCall(4, "mark_complete", r)

Choice5MarkIncomplete ==
    /\ mode = "Running"
    /\ IF StopsAtView(tasks)
       THEN MenuView(5, "view_tasks", view_tasks(tasks, TRUE))
       ELSE \E task_num \in TaskNumbers(tasks) :
               \E r \in mark_incomplete(tasks, file, task_num, failures) :
                  MenuCall(5, "mark_incomplete", r)

\* `current_task = todo_app.tasks[task_num - 1]["task"]` is outside any try.
Choice6Edit ==
    /\ mode = "Running"
    /\ IF StopsAtView(tasks)
       THEN MenuView(6, "view_tasks", view_tasks(tasks, TRUE))
       ELSE \E task_num \in TaskNumbers(tasks) :
               IF ~Subscriptable(tasks[task_num], TASK)
               THEN MenuView(6, "none", "raised")
               ELSE \E typed \in Descriptions :
                       LET new_task == strip(typed) IN
                       IF new_task # <<>>
                       THEN \E r \in edit_task(tasks, file, task_num, new_task,
                                              failures) :
                               MenuCall(6, "edit_task", r)
                       ELSE MenuSkip(6, "rejected")

\* Choice 7 from its (y/N) prompt on: remove_task() is called if the answer
\* confirms, "Task removal cancelled." is printed if not.
ConfirmRemove(list, f, task_num, answer, n) ==
    IF Confirmed(answer)
    THEN remove_task(list, f, task_num, n)
    ELSE {Done(list, f, "None", "cancelled", "none")}

\* `task_to_remove = todo_app.tasks[task_num - 1]["task"]` likewise.
Choice7Remove ==
    /\ mode = "Running"
    /\ IF StopsAtView(tasks)
       THEN MenuView(7, "view_tasks", view_tasks(tasks, TRUE))
       ELSE \E task_num \in TaskNumbers(tasks) :
               IF ~Subscriptable(tasks[task_num], TASK)
               THEN MenuView(7, "none", "raised")
               ELSE \E answer \in Answers :
                       \E r \in ConfirmRemove(tasks, file, task_num, answer,
                                              failures) :
                          IF r.how = "cancelled"
                          THEN MenuSkip(7, "cancelled")
                          ELSE MenuCall(7, "remove_task", r)

Choice8ClearCompleted ==
    /\ mode = "Running"
    /\ \E answer \in Answers :
         \E r \in clear_completed(tasks, file, answer, failures) :
            MenuCall(8, "clear_completed", r)

Choice9Stats ==
    /\ mode = "Running"
    /\ MenuView(9, "get_task_stats", get_task_stats(tasks))

\* The farewell counts the pending tasks, reading every task["completed"].
Choice10Exit ==
    /\ mode = "Running"
    /\ mode' = IF tasks # <<>> /\ ~FlagsReadable(tasks)
               THEN "Crashed" ELSE "Exiting"
    /\ last' = [choice |-> 10, op |-> "none", result |-> "None",
                how |-> "exit", saved |-> "none"]
    /\ UNCHANGED <<tasks, file, failures>>

MainNext ==
    \/ Startup
    \/ Choice1Add
    \/ Choice2ViewAll
    \/ Choice3ViewPending
    \/ Choice4MarkComplete
    \/ Choice5MarkIncomplete
    \/ Choice6Edit
    \/ Choice7Remove
    \/ Choice8ClearCompleted
    \/ Choice9Stats
    \/ Choice10Exit

MainSpec == MainInit /\ [][MainNext]_vars

----------------------------------------------------------------------------
(* save_tasks() and load_tasks() on their own: a list is saved, and a later *)
(* TodoApp on the same file loads it.                                       *)

\* Descriptions with the characters a dump has to escape or could mistake
\* for its own punctuation.
SavedDescriptions == {<<"a">>, <<"[", QT, BS>>, <<"n", NL, "]">>}

SavedRecords ==
    {Record(d, c, t) : d \in SavedDescriptions, c \in BOOLEAN,
                       t \in {<<>>, <<"T1">>}}

SavedLists ==
    UNION {[1..len -> SavedRecords] : len \in 0..MaxSaved}

FileInit ==
    /\ tasks \in SavedLists
    /\ file = Missing
    /\ mode = "Running"
    /\ last = NoCall
    /\ failures = 0

SaveTasks ==
    /\ \E r \in save_tasks(tasks, file, failures) : Apply(0, "save_tasks", r)
    /\ UNCHANGED mode

LoadTasks ==
    /\ tasks' = load_tasks(file)
    /\ last' = [choice |-> 0, op |-> "load_tasks", result |-> "None",
                how |-> LoadBranch(file), saved |-> "none"]
    /\ UNCHANGED <<file, failures, mode>>

FileNext ==
    \/ SaveTasks
    \/ LoadTasks

FileSpec == FileInit /\ [][FileNext]_vars

----------------------------------------------------------------------------
(* Properties *)

MutatingOps == {"add_task", "remove_task", "mark_complete", "mark_incomplete",
                "edit_task", "clear_completed"}

\* A record as the data model has it: task, completed and created, of type
\* string, boolean and string.
IsTaskRecord(v) ==
    /\ Subscriptable(v, TASK) /\ GetItem(v, TASK).t = "str"
    /\ Subscriptable(v, COMPLETED) /\ GetItem(v, COMPLETED).t = "bool"
    /\ Subscriptable(v, CREATED) /\ GetItem(v, CREATED).t = "str"

\* ... whose description is non-empty and trimmed.
IsValidRecord(v) ==
    /\ IsTaskRecord(v)
    /\ GetItem(v, TASK).s # <<>>
    /\ Head(GetItem(v, TASK).s) \notin Whitespace
    /\ GetItem(v, TASK).s[Len(GetItem(v, TASK).s)] \notin Whitespace

AllValid(list) == \A i \in 1..Len(list) : IsValidRecord(list[i])

\* C1: whenever the last call was a mutating store operation that returned
\* success, the backing file loads back to exactly the in-memory list.
C1_FileHoldsList ==
    (last.op \in MutatingOps /\ last.result = "True")
        => (file.kind = "text" /\ load_tasks(file) = tasks)

\* A clear that went through and left tasks behind, and a successful add
\* made after an earlier save had failed.
C1_Witness ==
    /\ last.op = "clear_completed"
    /\ last.result = "True"
    /\ tasks # <<>>
    /\ failures > 0

\* C2: a list of valid records (the empty list too) that save_tasks() wrote
\* successfully is what load_tasks() then yields: same records, same order.
C2_RoundTrip ==
    [][(last'.op = "load_tasks" /\ last.op = "save_tasks"
            /\ last.result = "True" /\ AllValid(tasks))
          => tasks' = tasks]_vars

\* Two different records, one with a quote and a backslash in its
\* description, loaded back from a dump.
C2_Witness ==
    /\ last.op = "load_tasks"
    /\ last.how = "json"
    /\ Len(tasks) = 2
    /\ tasks[1] # tasks[2]
    /\ GetItem(tasks[1], TASK).s = <<"[", QT, BS>>
    /\ file = Text(json_dump(tasks))

\* The file is in the structured format: its text decodes to an array whose
\* elements are all task records.
Structured(f) ==
    /\ f.kind = "text"
    /\ LET data == json_loads(strip(f.content))
       IN  /\ data.ok
           /\ data.val.t = "list"
           /\ \A i \in 1..Len(data.val.items) : IsTaskRecord(data.val.items[i])

\* The file is in legacy form: text with something on it that is not the
\* structured format.
LegacyForm(f) ==
    /\ f.kind = "text"
    /\ strip(f.content) # <<>>
    /\ ~Structured(f)

\* C3: a file of plain text lines loads as one record per non-blank line, in
\* order, the trimmed line as description, completed false, created "";
\* the first successful mutation rewrites the file in the structured format,
\* and a structured file is never in legacy form again.
C3_LegacyMigration ==
    [][/\ (last = NoCall /\ LegacyForm(file))
            => tasks = LegacyLines(strip(file.content))
       /\ (last'.op \in MutatingOps /\ last'.result = "True")
            => Structured(file')
       /\ Structured(file) => ~LegacyForm(file')]_vars

\* What the two-tier load is to yield: the decoded array when the text is the
\* structured format, the legacy lines for any other text, nothing else.
ClaimedLoad(f) ==
    IF f.kind # "text" \/ strip(f.content) = <<>> THEN <<>>
    ELSE IF Structured(f) THEN json_loads(strip(f.content)).val.items
    ELSE LegacyLines(strip(f.content))

\* C4: load_tasks takes the structured decoding only for an array of task
\* records; a scalar, an object or an array of other things is read as
\* legacy text, one record per non-empty line.
C4_LoadFallback == last = NoCall => tasks = ClaimedLoad(file)

\* C5: whatever the file held at start and whatever is chosen, main() leaves
\* the running state only through choice 10: no exception ends it.
C5_NoFatalError == mode # "Crashed"

\* C6: every record of the in-memory list has a description that is
\* non-empty and has no whitespace at either end.
C6_DescriptionsTrimmed ==
    \A i \in 1..Len(tasks) :
        (Subscriptable(tasks[i], TASK) /\ GetItem(tasks[i], TASK).t = "str")
            => /\ GetItem(tasks[i], TASK).s # <<>>
               /\ Head(GetItem(tasks[i], TASK).s) \notin Whitespace
               /\ GetItem(tasks[i], TASK).s[Len(GetItem(tasks[i], TASK).s)]
                      \notin Whitespace

\* C7: remove_task(k) on a list of size N, 1 <= k <= N, leaves N - 1 tasks:
\* positions 1..k-1 as they were, and position j in k..N-1 holding what was
\* at j + 1, whatever its save does.
C7_RemoveShiftsDown ==
    \A k \in 1..Len(tasks) :
        \A r \in remove_task(tasks, file, k, failures) :
            /\ Len(r.tasks) = Len(tasks) - 1
            /\ \A j \in 1..(k - 1) : r.tasks[j] = tasks[j]
            /\ \A j \in k..(Len(tasks) - 1) : r.tasks[j] = tasks[j + 1]

\* The middle one of the three tasks of the structured start file has been
\* removed.
C7_Witness ==
    /\ last.op = "remove_task"
    /\ last.result = "True"
    /\ file = Text(json_dump(tasks))
    /\ tasks = <<Record(<<"a">>, FALSE, <<"T1">>), Record(<<"a">>, FALSE, <<>>)>>

\* Empty and whitespace-only descriptions.
BlankDescriptions == {<<>>, <<SP>>, <<NL, SP>>}

\* The call ended in failure with the list and the file as they were and no
\* save attempted.
Rejected(r) ==
    /\ r.result = "False"
    /\ r.tasks = tasks
    /\ r.file = file
    /\ r.saved = "none"

\* C8: add_task with a blank description, and edit_task(i, d) with a blank d
\* for any i, return failure, leave the list unchanged and write nothing.
C8_BlankRejected ==
    \A d \in BlankDescriptions :
        /\ \A now \in Clock :
              \A r \in add_task(tasks, file, d, now, failures) : Rejected(r)
        /\ \A i \in Indices(tasks) :
              \A r \in edit_task(tasks, file, i, d, failures) : Rejected(r)

\* A blank edit of an existing task has been turned down.
C8_Witness ==
    /\ last.op = "edit_task"
    /\ last.how = "empty"
    /\ Len(tasks) = 2

\* Task numbers outside 1..N for the current list.
OutOfRange == {-1, 0, Len(tasks) + 1, Len(tasks) + 2}

\* C9: remove_task, mark_complete, mark_incomplete and edit_task with an
\* index outside 1..N fail on the range check (no exception is involved),
\* leave the list unchanged and attempt no save.
C9_OutOfRangeRejected ==
    \A i \in OutOfRange :
        \A r \in remove_task(tasks, file, i, failures)
                 \cup mark_complete(tasks, file, i, failures)
                 \cup mark_incomplete(tasks, file, i, failures)
                 \cup UNION {edit_task(tasks, file, i, d, failures) :
                                d \in Descriptions} :
            Rejected(r) /\ r.how = "invalid_number"

\* mark_complete has turned down a task number on the empty list.
C9_Witness ==
    /\ last.op = "mark_complete"
    /\ last.how = "invalid_number"
    /\ tasks = <<>>

\* C10: a save_tasks() that cannot open or write the file returns False,
\* raises nothing, and leaves the in-memory list as it was.
C10_SaveFailureKeepsList ==
    [][(last'.op = "save_tasks" /\ Failed(last'.saved))
          => (last'.result = "False" /\ tasks' = tasks)]_vars

\* A save of a non-empty list has failed while writing.
C10_Witness ==
    /\ last.op = "save_tasks"
    /\ last.saved = "write_failed"
    /\ last.result = "False"
    /\ tasks # <<>>

\* Key k is in record v after exactly when it was before, with the same value.
SameItem(before, after, k) ==
    /\ HasKey(after, k) = HasKey(before, k)
    /\ HasKey(before, k) => GetItem(after, k) = GetItem(before, k)

\* C11: a successful edit_task(i, d) leaves the list as long as it was, every
\* record but the one at i as it was, and at i the same record with its
\* description replaced by d trimmed: completed and created are untouched.
C11_EditFrame ==
    \A i \in 1..Len(tasks), d \in Descriptions :
        \A r \in edit_task(tasks, file, i, d, failures) :
            r.result = "True" =>
                /\ Len(r.tasks) = Len(tasks)
                /\ \A j \in 1..Len(tasks) : j # i => r.tasks[j] = tasks[j]
                /\ IsDict(r.tasks[i])
                /\ Len(r.tasks[i].members) = Len(tasks[i].members)
                /\ GetItem(r.tasks[i], TASK) = Str(strip(d))
                /\ SameItem(tasks[i], r.tasks[i], COMPLETED)
                /\ SameItem(tasks[i], r.tasks[i], CREATED)

\* The completed second task of the structured start file has had its
\* description changed from "b" to "a" (typed with blanks around it).
C11_Witness ==
    /\ last.op = "edit_task"
    /\ last.result = "True"
    /\ Len(tasks) = 3
    /\ tasks[1] = Record(<<"a">>, FALSE, <<"T1">>)
    /\ tasks[2] = Record(<<"a">>, TRUE, <<>>)

\* The records of list whose completed flag is false, in the order they have.
RECURSIVE NotCompletedOf(_)
NotCompletedOf(list) ==
    IF list = <<>> THEN <<>>
    ELSE IF GetItem(Head(list), COMPLETED) = Bool(FALSE)
         THEN <<Head(list)>> \o NotCompletedOf(Tail(list))
         ELSE NotCompletedOf(Tail(list))

\* No element of list is a record with completed = true.
NoneCompleted(list) ==
    \A i \in 1..Len(list) :
        ~(Subscriptable(list[i], COMPLETED)
            /\ GetItem(list[i], COMPLETED) = Bool(TRUE))

\* The call changed nothing: the list and the file are as in the current
\* state and no save was attempted.
NoOp(r) ==
    /\ r.tasks = tasks
    /\ r.file = file
    /\ r.saved = "none"

\* C12: a clear_completed that is confirmed and goes ahead leaves exactly the
\* records whose completed flag was false, in their order; on a list with no
\* completed record it changes nothing and writes nothing, whatever is
\* answered, and so does a second call right after it.
C12_ClearCompleted ==
    \A a \in Answers :
        \A r \in clear_completed(tasks, file, a, failures) :
            /\ (Confirmed(a) /\ ~NoneCompleted(tasks) /\ r.result # "raised")
                  => r.tasks = NotCompletedOf(tasks)
            /\ NoneCompleted(tasks)
                  => /\ NoOp(r)
                     /\ \A a2 \in Answers :
                           \A r2 \in clear_completed(r.tasks, r.file, a2,
                                                     failures) : NoOp(r2)

\* A confirmed clear of the three-task start file has gone through: its
\* first and third task are left, in that order, and are in the file.
C12_Witness ==
    /\ last.op = "clear_completed"
    /\ last.result = "True"
    /\ tasks = <<Record(<<"a">>, FALSE, <<"T1">>), Record(<<"a">>, FALSE, <<>>)>>
    /\ file = Text(json_dump(tasks))

\* Answers to a confirmation prompt, near misses of "y" and "yes" among them.
ConfirmAnswers ==
    Answers \cup {<<"Y">>, <<"y", "e">>, <<"y", "e", "s", "s">>, <<"y", "y">>,
                  <<"y", SP, "e", "s">>, <<"n", "o">>, <<SP>>, <<"1">>}

\* The answer, trimmed and lower-cased, is exactly "y" or "yes".
IsYes(answer) ==
    \/ lower(strip(answer)) = <<"y">>
    \/ lower(strip(answer)) = <<"y", "e", "s">>

\* C13: in the Remove command (for any task number) and in clear_completed,
\* an answer that is not "y" or "yes" after trimming and lower-casing leaves
\* the list and the file as they are and attempts no save.
C13_ConfirmationNeeded ==
    \A a \in ConfirmAnswers :
        ~IsYes(a) =>
            /\ \A r \in clear_completed(tasks, file, a, failures) : NoOp(r)
            /\ \A task_num \in TaskNumbers(tasks) :
                  \A r \in ConfirmRemove(tasks, file, task_num, a, failures) :
                     NoOp(r)

\* Choice 7 on the three-task list was answered with something else than
\* yes, and the three tasks are still there.
C13_Witness ==
    /\ last.choice = 7
    /\ last.how = "cancelled"
    /\ mode = "Running"
    /\ Len(tasks) = 3
    /\ file = ThreeTasks

ReadOnlyOps == {"view_tasks", "view_pending_tasks", "get_task_stats"}

\* C14: a step that is a call of view_tasks, view_pending_tasks or
\* get_task_stats, returning or raising, leaves the in-memory list and the
\* backing file as they were and attempts no save.
C14_ViewsNeverWrite ==
    [][last'.op \in ReadOnlyOps
          => (tasks' = tasks /\ file' = file /\ last'.saved = "none"
                /\ failures' = failures)]_vars

\* Pending tasks were viewed while the list held a task that the file does
\* not (its save had failed), and the file was not brought up to date.
C14_Witness ==
    /\ last.op = "view_pending_tasks"
    /\ last.result = "None"
    /\ tasks # <<>>
    /\ file = Missing

AllRecords(list) == \A i \in 1..Len(list) : IsTaskRecord(list[i])

\* How many records of list have completed = true.
RECURSIVE CompletedCount(_)
CompletedCount(list) ==
    IF list = <<>> THEN 0
    ELSE (IF GetItem(Head(list), COMPLETED) = Bool(TRUE) THEN 1 ELSE 0)
         + CompletedCount(Tail(list))

\* rate, in tenths of a percent, is 100 * C / T to the nearest tenth.
IsRateOf(rate, C, T) ==
    /\ 2 * (rate * T - 1000 * C) <= T
    /\ 2 * (1000 * C - rate * T) <= T

\* The figures get_task_stats shows for a non-empty list of records: T, C,
\* T - C and 100 * C / T.
StatsOfRecords(list, s) ==
    /\ s.shown
    /\ s.total = Len(list)
    /\ s.completed = CompletedCount(list)
    /\ s.pending = Len(list) - CompletedCount(list)
    /\ s.completed + s.pending = s.total
    /\ IsRateOf(s.completion_rate, CompletedCount(list), Len(list))

C16_AddAppends ==
    \A d \in Descriptions, now \in Clock :
        \A r \in add_task(tasks, file, d, now, failures) :
            r.result = "True" =>
                /\ strip(d) # <<>>
                /\ Len(r.tasks) = Len(tasks) + 1
                /\ \A j \in 1..Len(tasks) : r.tasks[j] = tasks[j]
                /\ IsTaskRecord(r.tasks[Len(tasks) + 1])
                /\ GetItem(r.tasks[Len(tasks) + 1], TASK) = Str(strip(d))
                /\ GetItem(r.tasks[Len(tasks) + 1], COMPLETED) = Bool(FALSE)
                /\ GetItem(r.tasks[Len(tasks) + 1], CREATED) = Str(now)
                /\ r.saved = "ok"
                /\ r.file.kind = "text"
                /\ load_tasks(r.file) = r.tasks

\* A task typed with blanks around it was added after a completed one.
C16_Witness ==
    /\ last.op = "add_task"
    /\ last.result = "True"
    /\ tasks = <<Record(<<"b">>, TRUE, <<>>), Record(<<"a">>, FALSE, <<"T1">>)>>
    /\ file = Text(json_dump(tasks))

\* Record v with its completed flag set to value and nothing else changed.
FlagSet(before, after, value) ==
    /\ IsDict(after)
    /\ GetItem(after, COMPLETED) = Bool(value)
    /\ SameItem(before, after, TASK)
    /\ SameItem(before, after, CREATED)
    /\ Len(after.members) = Len(before.members)
                              + (IF HasKey(before, COMPLETED) THEN 0 ELSE 1)

\* Outcome r of setting the flag of record i to value: the flag is set
\* whatever it was, the rest of the list is as it was, and when the call
\* returns True the file holds the list.
SetCompleted(r, i, value) ==
    /\ Len(r.tasks) = Len(tasks)
    /\ \A j \in 1..Len(tasks) : j # i => r.tasks[j] = tasks[j]
    /\ FlagSet(tasks[i], r.tasks[i], value)
    /\ r.result = "True"
          => (r.saved = "ok" /\ r.file.kind = "text"
                /\ load_tasks(r.file) = r.tasks)

\* r2, the same call made again after r and saving without trouble, found
\* everything as it leaves it: the list and the file.
Again(r, r2) ==
    /\ r2.result = "True"
    /\ r2.tasks = r.tasks
    /\ r2.file = r.file

\* C17: for an in-range i whose element is a record, mark_complete(i) sets
\* its completed flag to true and mark_incomplete(i) to false, whatever it
\* was; description, created, length, order and all other records are
\* unchanged; a call that returns success has written the resulting list to
\* the file, and the same call made again after it changes nothing.
C17_SetCompleted ==
    \A i \in 1..Len(tasks) :
        IsDict(tasks[i]) =>
            /\ \A r \in mark_complete(tasks, file, i, failures) :
                  /\ SetCompleted(r, i, TRUE)
                  /\ r.result = "True"
                        => \A r2 \in mark_complete(r.tasks, r.file, i,
                                                   MaxSaveFailures) :
                              Again(r, r2)
            /\ \A r \in mark_incomplete(tasks, file, i, failures) :
                  /\ SetCompleted(r, i, FALSE)
                  /\ r.result = "True"
                        => \A r2 \in mark_incomplete(r.tasks, r.file, i,
                                                     MaxSaveFailures) :
                              Again(r, r2)

\* The completed second task of the three-task start file has been marked
\* incomplete, and the file says so.
C17_Witness ==
    /\ last.op = "mark_incomplete"
    /\ last.result = "True"
    /\ Len(tasks) = 3
    /\ tasks[2] = Record(<<"b">>, FALSE, <<>>)
    /\ file = Text(json_dump(tasks))

\* C18: from Running, a step that handles a choice 1 to 9 ends in Running
\* whatever the outcome; Exiting is entered only from Running by choice 10;
\* and in Exiting nothing happens any more: no store call, no write.
C18_LoopLifecycle ==
    [][/\ (mode = "Running" /\ last'.choice \in 1..9) => mode' = "Running"
       /\ (mode # "Exiting" /\ mode' = "Exiting")
             => (mode = "Running" /\ last'.choice = 10)
       /\ mode = "Exiting" => vars' = vars]_vars

\* C19: a step that is a call of add_task, remove_task, mark_complete,
\* mark_incomplete, edit_task or clear_completed returning False, for
\* whatever reason, leaves the in-memory list exactly as it was.
C19_FailureMeansNoChange ==
    [][(last'.op \in MutatingOps /\ last'.result = "False")
          => tasks' = tasks]_vars

\* C20: a save_tasks() that returns False leaves the backing file as it was
\* before the call: never truncated, never partially written.
C20_FailedSaveKeepsFile ==
    [][(last'.op = "save_tasks" /\ last'.result = "False")
          => file' = file]_vars

====
